---- MODULE Spec2Model ----
(***************************************************************************)
(* Model of the template splitter of itedya/plt: TextCodeFSA               *)
(* (src/src/text_code_fsa.rs).  A document is a sequence of characters;    *)
(* a character is written as a string ("<", "?", ..., "U+20AC").  The      *)
(* byte view of a document (String slicing, starts_with) is kept apart     *)
(* from its character view (payload.chars()), as the code keeps them.      *)
(***************************************************************************)
EXTENDS Naturals, Sequences, FiniteSets

VARIABLES
    pc,                  \* position of the caller: idle | scanning | returned | panicked
    payload,             \* run's argument: a String, i.e. its UTF-8 bytes
    payload_chars,       \* run's local: the chars of payload
    payload_char_index,  \* run's cursor
    state,               \* TextCodeFSA.state
    data,                \* TextCodeFSA.data: sequence of Parts
    calls,               \* what the caller holds: the runs that have returned
    gen_pc,              \* position of generate_file's caller and of the generated function
    fn_name,             \* generate_file's argument
    args,                \* generate_file's argument
    gen_data,            \* generate_file's argument data
    code_lines,          \* generate_file's result
    exec_line,           \* the generated function: number of the line to execute
    output_buffer,       \* the generated function: the fragments appended so far
    failed               \* the generated function: the fragments whose append failed

fsa_vars == <<pc, payload, payload_chars, payload_char_index, state, data, calls>>

gen_vars ==
    <<gen_pc, fn_name, args, gen_data, code_lines, exec_line, output_buffer, failed>>

vars == <<fsa_vars, gen_vars>>

(***************************************************************************)
(* Bounds and the documents run is called with.  A document is built from  *)
(* pieces: the two tags and the lexical openers and closers of the         *)
(* embedded language.  Documents over the common pieces are the longer     *)
(* ones; the rare pieces (a multi-byte character, the openers of a block   *)
(* comment and of a raw string, a backslash, parts of a start tag, an      *)
(* empty code region) occur in short documents.                            *)
(***************************************************************************)
MaxPieces == 5
MaxRarePieces == 3

\* The one multi-byte character of the alphabet: EURO SIGN, 3 bytes in UTF-8.
Euro == "U+20AC"

StartTag == <<"<", "?", "r", "s">>
EndTag == <<"?", ">">>

CommonPieces ==
    { StartTag, EndTag, <<"a">>, <<"\"">>, <<"/", "/">>, <<"\n">> }

RarePieces ==
    { <<Euro>>, <<"/", "*">>, <<"r", "\"">>, <<"\\">>, <<"<", "?">>, <<"r", "s">>,
      StartTag \o EndTag }

RECURSIVE Flatten(_)
Flatten(ss) == IF ss = <<>> THEN <<>> ELSE Head(ss) \o Flatten(Tail(ss))

\* the sequences of at most max pieces
PieceSeqs(pieces, max) == UNION { [1..n -> pieces] : n \in 0..max }

DocumentsOver(pieces, max) == { Flatten(ps) : ps \in PieceSeqs(pieces, max) }

\* documents as sequences of chars: those of DocumentsOver(CommonPieces,
\* MaxPieces) and of DocumentsOver(CommonPieces \cup RarePieces, MaxRarePieces)
Documents ==
    { Flatten(ps) :
        ps \in PieceSeqs(CommonPieces, MaxPieces)
                  \cup PieceSeqs(CommonPieces \cup RarePieces, MaxRarePieces) }

(***************************************************************************)
(* Strings: UTF-8 bytes, char boundaries, slicing, starts_with.            *)
(***************************************************************************)
Utf8(c) == IF c = Euro THEN <<"xE2", "x82", "xAC">> ELSE <<c>>

ContinuationBytes == {"x82", "xAC"}

\* String::from of a sequence of chars
RECURSIVE Bytes(_)
Bytes(s) == IF s = <<>> THEN <<>> ELSE Utf8(Head(s)) \o Bytes(Tail(s))

\* str::is_char_boundary, on a 0-based byte offset of the String b
IsCharBoundary(b, i) ==
    \/ i = 0
    \/ i = Len(b)
    \/ i < Len(b) /\ b[i + 1] \notin ContinuationBytes

\* b[i..].starts_with(pat), for a slice that does not panic
StartsWithAt(b, i, pat) ==
    /\ i + Len(pat) <= Len(b)
    /\ \A k \in 1..Len(pat) : b[i + k] = pat[k]

(***************************************************************************)
(* Parts.                                                                  *)
(***************************************************************************)
Text(content) == [kind |-> "Text", content |-> content]
Code(content) == [kind |-> "Code", content |-> content]

Last(s) == s[Len(s)]

\* Option<&str>: <<content>> is Some(content), <<>> is None
get_last_part_content(d) == IF d # <<>> THEN <<Last(d).content>> ELSE <<>>

unwrap_or(opt, default) == IF opt # <<>> THEN opt[1] ELSE default

(***************************************************************************)
(* rustc_lexer::tokenize, on the characters of the alphabet.  A token is   *)
(* [kind, terminated, len]; kind "Str" is Literal { kind: Str { .. } },    *)
(* "RawStr" is Literal { kind: RawStr { .. } }.  The alphabet has no '#',  *)
(* no 'b', no digit and no quote character other than '"'.                 *)
(***************************************************************************)
EOF_CHAR == "EOF"

nth_char(s, i) == IF i <= Len(s) THEN s[i] ELSE EOF_CHAR

is_whitespace(c) == c \in {"\n", " "}

is_id_start(c) == c \in {"a", "r", "s"}

is_id_continue(c) == c \in {"a", "r", "s"}

Token(kind, terminated, len) == [kind |-> kind, terminated |-> terminated, len |-> len]

\* the position after the longest run of whitespace that starts at i
RECURSIVE eat_whitespace(_, _)
eat_whitespace(s, i) ==
    IF is_whitespace(nth_char(s, i)) THEN eat_whitespace(s, i + 1) ELSE i

\* the position after the longest run of identifier characters that starts at i
RECURSIVE eat_identifier(_, _)
eat_identifier(s, i) ==
    IF is_id_continue(nth_char(s, i)) THEN eat_identifier(s, i + 1) ELSE i

eat_literal_suffix(s, i) ==
    IF is_id_start(nth_char(s, i)) THEN eat_identifier(s, i + 1) ELSE i

\* the position of the newline that ends the comment, or of the end of input
RECURSIVE line_comment(_, _)
line_comment(s, i) ==
    IF i > Len(s) \/ s[i] = "\n" THEN i ELSE line_comment(s, i + 1)

\* i is the position after the opening "/*"
RECURSIVE block_comment(_, _, _)
block_comment(s, i, depth) ==
    IF i > Len(s) THEN [next |-> i, terminated |-> FALSE]
    ELSE IF s[i] = "/" /\ nth_char(s, i + 1) = "*"
         THEN block_comment(s, i + 2, depth + 1)
    ELSE IF s[i] = "*" /\ nth_char(s, i + 1) = "/"
         THEN IF depth = 1 THEN [next |-> i + 2, terminated |-> TRUE]
                           ELSE block_comment(s, i + 2, depth - 1)
    ELSE block_comment(s, i + 1, depth)

\* i is the position after the opening quote
RECURSIVE double_quoted_string(_, _)
double_quoted_string(s, i) ==
    IF i > Len(s) THEN [next |-> i, terminated |-> FALSE]
    ELSE IF s[i] = "\"" THEN [next |-> i + 1, terminated |-> TRUE]
    ELSE IF s[i] = "\\" /\ nth_char(s, i + 1) \in {"\\", "\""}
         THEN double_quoted_string(s, i + 2)
    ELSE double_quoted_string(s, i + 1)

\* i is the position after the opening r", with no '#'
RECURSIVE raw_double_quoted_string(_, _)
raw_double_quoted_string(s, i) ==
    IF i > Len(s) THEN [next |-> i, terminated |-> FALSE]
    ELSE IF s[i] = "\"" THEN [next |-> i + 1, terminated |-> TRUE]
    ELSE raw_double_quoted_string(s, i + 1)

\* the token that starts at position i <= Len(s)
advance_token(s, i) ==
    LET first_char == s[i]
        literal(kind, r) ==
            Token(kind, r.terminated,
                  (IF r.terminated THEN eat_literal_suffix(s, r.next) ELSE r.next) - i)
    IN  IF first_char = "/" THEN
            IF nth_char(s, i + 1) = "/"
                THEN Token("LineComment", TRUE, line_comment(s, i + 2) - i)
            ELSE IF nth_char(s, i + 1) = "*"
                THEN LET r == block_comment(s, i + 2, 1)
                     IN  Token("BlockComment", r.terminated, r.next - i)
            ELSE Token("Slash", TRUE, 1)
        ELSE IF is_whitespace(first_char)
            THEN Token("Whitespace", TRUE, eat_whitespace(s, i + 1) - i)
        ELSE IF first_char = "r" /\ nth_char(s, i + 1) = "\""
            THEN literal("RawStr", raw_double_quoted_string(s, i + 2))
        ELSE IF is_id_start(first_char)
            THEN Token("Ident", TRUE, eat_identifier(s, i + 1) - i)
        ELSE IF first_char = "?" THEN Token("Question", TRUE, 1)
        ELSE IF first_char = "<" THEN Token("Lt", TRUE, 1)
        ELSE IF first_char = ">" THEN Token("Gt", TRUE, 1)
        ELSE IF first_char = "*" THEN Token("Star", TRUE, 1)
        ELSE IF first_char = "\""
            THEN literal("Str", double_quoted_string(s, i + 1))
        ELSE Token("Unknown", TRUE, 1)

RECURSIVE tokenize_from(_, _)
tokenize_from(s, i) ==
    IF i > Len(s) THEN <<>>
    ELSE LET t == advance_token(s, i) IN <<t>> \o tokenize_from(s, i + t.len)

tokenize_code_from_str(content) == tokenize_from(content, 1)

\* mutant: the line-comment test is missing
is_inside_line_comment_never(tokens) == FALSE

is_inside_line_comment(tokens) ==
    tokens # <<>> /\ Last(tokens).kind = "LineComment"

\* mutant: the terminated flag is read the wrong way round
is_inside_str_literal_terminated(tokens) ==
    tokens # <<>> /\ Last(tokens).kind = "Str" /\ Last(tokens).terminated = TRUE

is_inside_str_literal(tokens) ==
    tokens # <<>> /\ Last(tokens).kind = "Str" /\ Last(tokens).terminated = FALSE

(***************************************************************************)
(* TextCodeFSA.                                                            *)
(***************************************************************************)
\* mutant: the merge test is dropped, every char opens a new Part
push_char_always_new(st, d, c) ==
    IF st = "ParsingText" THEN Append(d, Text(<<c>>)) ELSE Append(d, Code(<<c>>))

push_char_to_latest_entry(st, d, c) ==
    LET is_correct_type ==
            /\ d # <<>>
            /\ \/ st = "ParsingCode" /\ Last(d).kind = "Code"
               \/ st = "ParsingText" /\ Last(d).kind = "Text"
    IN  IF d # <<>> /\ is_correct_type
        THEN [d EXCEPT ![Len(d)].content = Append(@, c)]
        ELSE IF st = "ParsingText" THEN Append(d, Text(<<c>>))
                                   ELSE Append(d, Code(<<c>>))

\* the tokens run asks for at a candidate end tag
tokens == tokenize_code_from_str(unwrap_or(get_last_part_content(data), <<>>))

\* the loop condition holds and payload[payload_char_index..] does not panic
InLoop ==
    /\ pc = "scanning"
    /\ payload_char_index < Len(payload_chars)
    /\ IsCharBoundary(payload, payload_char_index)

PushAndStep ==
    /\ data' = push_char_to_latest_entry(
                   state, data, payload_chars[payload_char_index + 1])
    /\ payload_char_index' = payload_char_index + 1
    /\ UNCHANGED <<pc, payload, payload_chars, state, calls>>
    /\ UNCHANGED gen_vars

\* TextCodeFSA::new() has run; the caller calls run(payload)
RunCall ==
    /\ pc = "idle"
    /\ \E d \in Documents :
           /\ payload' = Bytes(d)
           /\ payload_chars' = d
    /\ payload_char_index' = 0
    /\ pc' = "scanning"
    /\ UNCHANGED <<state, data, calls>>
    /\ UNCHANGED gen_vars

\* payload[payload_char_index..] with the index inside a character
SlicePanic ==
    /\ pc = "scanning"
    /\ payload_char_index < Len(payload_chars)
    /\ ~IsCharBoundary(payload, payload_char_index)
    /\ pc' = "panicked"
    /\ UNCHANGED <<payload, payload_chars, payload_char_index, state, data, calls>>
    /\ UNCHANGED gen_vars

CodeEndTagInStrLiteral ==
    /\ InLoop
    /\ state = "ParsingCode"
    /\ StartsWithAt(payload, payload_char_index, EndTag)
    /\ is_inside_str_literal(tokens)
    /\ PushAndStep

CodeEndTagInLineComment ==
    /\ InLoop
    /\ state = "ParsingCode"
    /\ StartsWithAt(payload, payload_char_index, EndTag)
    /\ ~is_inside_str_literal(tokens)
    /\ is_inside_line_comment(tokens)
    /\ PushAndStep

\* mutant: a live end tag moves the cursor by one char, like every other step
CodeEndTagStepsOne ==
    /\ InLoop
    /\ state = "ParsingCode"
    /\ StartsWithAt(payload, payload_char_index, EndTag)
    /\ ~is_inside_str_literal(tokens)
    /\ ~is_inside_line_comment(tokens)
    /\ payload_char_index' = payload_char_index + 1
    /\ state' = "ParsingText"
    /\ UNCHANGED <<pc, payload, payload_chars, data, calls>>
    /\ UNCHANGED gen_vars

\* mutant: an end tag inside an unterminated block comment is kept as code
CodeEndTagOutsideBlockComment ==
    /\ InLoop
    /\ state = "ParsingCode"
    /\ StartsWithAt(payload, payload_char_index, EndTag)
    /\ ~is_inside_str_literal(tokens)
    /\ ~is_inside_line_comment(tokens)
    /\ IF tokens # <<>> /\ Last(tokens).kind = "BlockComment"
                        /\ ~Last(tokens).terminated
       THEN PushAndStep
       ELSE /\ payload_char_index' = payload_char_index + Len(EndTag)
            /\ state' = "ParsingText"
            /\ UNCHANGED <<pc, payload, payload_chars, data, calls>>
            /\ UNCHANGED gen_vars

CodeEndTag ==
    /\ InLoop
    /\ state = "ParsingCode"
    /\ StartsWithAt(payload, payload_char_index, EndTag)
    /\ ~is_inside_str_literal(tokens)
    /\ ~is_inside_line_comment(tokens)
    /\ payload_char_index' = payload_char_index + Len(EndTag)
    /\ state' = "ParsingText"
    /\ UNCHANGED <<pc, payload, payload_chars, data, calls>>
    /\ UNCHANGED gen_vars

\* mutant: a start tag met in Code mode is skipped like one met in Text mode
CodeCharSkipsStartTag ==
    /\ InLoop
    /\ state = "ParsingCode"
    /\ ~StartsWithAt(payload, payload_char_index, EndTag)
    /\ IF StartsWithAt(payload, payload_char_index, StartTag)
       THEN /\ payload_char_index' = payload_char_index + Len(StartTag)
            /\ UNCHANGED <<pc, payload, payload_chars, state, data, calls>>
            /\ UNCHANGED gen_vars
       ELSE PushAndStep

CodeChar ==
    /\ InLoop
    /\ state = "ParsingCode"
    /\ ~StartsWithAt(payload, payload_char_index, EndTag)
    /\ PushAndStep

\* mutant: the continue is missing, the loop's own += 1 follows the += 4
TextStartTagNoContinue ==
    /\ InLoop
    /\ state = "ParsingText"
    /\ StartsWithAt(payload, payload_char_index, StartTag)
    /\ payload_char_index' = payload_char_index + Len(StartTag) + 1
    /\ state' = "ParsingCode"
    /\ UNCHANGED <<pc, payload, payload_chars, data, calls>>
    /\ UNCHANGED gen_vars

\* mutant: the start tag opens the Code Part of its region at once
TextStartTagOpensPart ==
    /\ InLoop
    /\ state = "ParsingText"
    /\ StartsWithAt(payload, payload_char_index, StartTag)
    /\ payload_char_index' = payload_char_index + Len(StartTag)
    /\ state' = "ParsingCode"
    /\ data' = Append(data, Code(<<>>))
    /\ UNCHANGED <<pc, payload, payload_chars, calls>>
    /\ UNCHANGED gen_vars

TextStartTag ==
    /\ InLoop
    /\ state = "ParsingText"
    /\ StartsWithAt(payload, payload_char_index, StartTag)
    /\ payload_char_index' = payload_char_index + Len(StartTag)
    /\ state' = "ParsingCode"
    /\ UNCHANGED <<pc, payload, payload_chars, data, calls>>
    /\ UNCHANGED gen_vars

\* mutant: an end tag met in Text mode is skipped, as one met in Code mode is
TextCharSkipsEndTag ==
    /\ InLoop
    /\ state = "ParsingText"
    /\ ~StartsWithAt(payload, payload_char_index, StartTag)
    /\ IF StartsWithAt(payload, payload_char_index, EndTag)
       THEN /\ payload_char_index' = payload_char_index + Len(EndTag)
            /\ UNCHANGED <<pc, payload, payload_chars, state, data, calls>>
            /\ UNCHANGED gen_vars
       ELSE PushAndStep

TextChar ==
    /\ InLoop
    /\ state = "ParsingText"
    /\ ~StartsWithAt(payload, payload_char_index, StartTag)
    /\ PushAndStep

\* the loop condition fails: run returns &self.data
Return ==
    /\ pc = "scanning"
    /\ payload_char_index >= Len(payload_chars)
    /\ pc' = "returned"
    /\ calls' = Append(calls, [payload_chars |-> payload_chars,
                               state |-> state, data |-> data])
    /\ UNCHANGED <<payload, payload_chars, payload_char_index, state, data>>
    /\ UNCHANGED gen_vars

\* TextCodeFSA::new(), and no run yet
FsaInit ==
    /\ pc = "idle"
    /\ payload = <<>>
    /\ payload_chars = <<>>
    /\ payload_char_index = 0
    /\ state = "ParsingText"
    /\ data = <<>>
    /\ calls = <<>>

\* generate_file is not called
GenIdle ==
    /\ gen_pc = "idle"
    /\ fn_name = <<>>
    /\ args = <<>>
    /\ gen_data = <<>>
    /\ code_lines = <<>>
    /\ exec_line = 0
    /\ output_buffer = <<>>
    /\ failed = {}

Init == FsaInit /\ GenIdle

Next ==
    \/ RunCall
    \/ SlicePanic
    \/ CodeEndTagInStrLiteral
    \/ CodeEndTagInLineComment
    \/ CodeEndTag
    \/ CodeChar
    \/ TextStartTag
    \/ TextChar
    \/ Return

Spec == Init /\ [][Next]_vars

TypeOK ==
    /\ pc \in {"idle", "scanning", "returned", "panicked"}
    /\ state \in {"ParsingText", "ParsingCode"}
    /\ payload_char_index \in 0..(Len(payload) + 1)

(***************************************************************************)
(* Several runs.  run() takes &mut self and has no reset: a caller may     *)
(* call it again on the same instance, and may make a second instance with *)
(* new() for the two documents joined.  calls keeps what each run returned.*)
(***************************************************************************)
MaxRunPieces == 2
MaxSecondPieces == 1

RunPieces ==
    {StartTag, EndTag, <<"a">>, <<"\"">>, <<"/", "/">>, <<Euro>>,
     <<"<", "?">>, <<"r", "s">>}

\* new(), then run(d1)
FirstRun ==
    /\ pc = "idle"
    /\ \E d \in DocumentsOver(RunPieces, MaxRunPieces) :
           /\ payload' = Bytes(d)
           /\ payload_chars' = d
    /\ payload_char_index' = 0
    /\ pc' = "scanning"
    /\ UNCHANGED <<state, data, calls>>
    /\ UNCHANGED gen_vars

\* mutant: run begins by setting the instance to what new() makes
RunAgainResets ==
    /\ pc = "returned"
    /\ Len(calls) = 1
    /\ \E d \in DocumentsOver(RunPieces, MaxSecondPieces) :
           /\ payload' = Bytes(d)
           /\ payload_chars' = d
    /\ payload_char_index' = 0
    /\ pc' = "scanning"
    /\ state' = "ParsingText"
    /\ data' = <<>>
    /\ UNCHANGED calls
    /\ UNCHANGED gen_vars

\* run(d2) on the instance run(d1) has returned from: the locals are new,
\* self.state and self.data are what they are
RunAgain ==
    /\ pc = "returned"
    /\ Len(calls) = 1
    /\ \E d \in DocumentsOver(RunPieces, MaxSecondPieces) :
           /\ payload' = Bytes(d)
           /\ payload_chars' = d
    /\ payload_char_index' = 0
    /\ pc' = "scanning"
    /\ UNCHANGED <<state, data, calls>>
    /\ UNCHANGED gen_vars

\* another instance from new(), then run(d1 ++ d2) on it
NewAndRunJoined ==
    /\ pc = "returned"
    /\ Len(calls) = 2
    /\ payload' = Bytes(calls[1].payload_chars \o calls[2].payload_chars)
    /\ payload_chars' = calls[1].payload_chars \o calls[2].payload_chars
    /\ payload_char_index' = 0
    /\ pc' = "scanning"
    /\ state' = "ParsingText"
    /\ data' = <<>>
    /\ UNCHANGED calls
    /\ UNCHANGED gen_vars

NextTwoRuns ==
    \/ FirstRun
    \/ RunAgain
    \/ NewAndRunJoined
    \/ SlicePanic
    \/ CodeEndTagInStrLiteral
    \/ CodeEndTagInLineComment
    \/ CodeEndTag
    \/ CodeChar
    \/ TextStartTag
    \/ TextChar
    \/ Return

SpecTwoRuns == Init /\ [][NextTwoRuns]_vars

(***************************************************************************)
(* generate_file.  A line is a sequence of chars.  The fixed texts of the  *)
(* format strings, with {{ and }} already read as { and }:                 *)
(***************************************************************************)
\* "fn {fn_name}({args}) -> Result<String, Box<dyn std::error::Error>> {{"
SigHead ==
    <<"f", "n", " ">>

SigTail ==
    <<")", " ", "-", ">", " ", "R", "e", "s", "u", "l", "t", "<", "S",
      "t", "r", "i", "n", "g", ",", " ", "B", "o", "x", "<", "d", "y",
      "n", " ", "s", "t", "d", ":", ":", "e", "r", "r", "o", "r", ":",
      ":", "E", "r", "r", "o", "r", ">", ">", " ", "{">>

UseLine ==
    <<"u", "s", "e", " ", "s", "t", "d", ":", ":", "f", "m", "t", ":",
      ":", "W", "r", "i", "t", "e", ";">>

LetLine ==
    <<"l", "e", "t", " ", "m", "u", "t", " ", "o", "u", "t", "p", "u",
      "t", "_", "b", "u", "f", "f", "e", "r", " ", "=", " ", "S", "t",
      "r", "i", "n", "g", ":", ":", "n", "e", "w", "(", ")", ";">>

\* "\twrite!(output_buffer, \"{{}}\", {{ {code} }})?;"
EchoHead ==
    <<"\t", "w", "r", "i", "t", "e", "!", "(", "o", "u", "t", "p", "u",
      "t", "_", "b", "u", "f", "f", "e", "r", ",", " ", "\"", "{", "}",
      "\"", ",", " ", "{", " ">>

EchoTail ==
    <<" ", "}", ")", "?", ";">>

\* "write!(output_buffer, \"{{}}\", \"{}\")?;"
TextHead ==
    <<"w", "r", "i", "t", "e", "!", "(", "o", "u", "t", "p", "u", "t",
      "_", "b", "u", "f", "f", "e", "r", ",", " ", "\"", "{", "}",
      "\"", ",", " ", "\"">>

\* mutant: the statement of a Text Part has no ?
TextTailSwallowing ==
    <<"\"", ")", ";">>

TextTail ==
    <<"\"", ")", "?", ";">>

OkLine ==
    <<"O", "k", "(", "o", "u", "t", "p", "u", "t", "_", "b", "u", "f",
      "f", "e", "r", ")">>

CloseLine ==
    <<"}">>

\* the Part variant generate_file matches besides Part::Code and Part::Text
EchoCode(content) == [kind |-> "EchoCode", content |-> content]

\* args.join(", ")
RECURSIVE join(_, _)
join(ss, sep) ==
    IF ss = <<>> THEN <<>>
    ELSE IF Len(ss) = 1 THEN ss[1]
    ELSE ss[1] \o sep \o join(Tail(ss), sep)

\* "\u{20ac}", what char::escape_default makes of a char outside 0x20..0x7e
\* that has no escape of its own
EuroEscape == <<"\\", "u", "{", "2", "0", "a", "c", "}">>

\* mutant: only the double quote is escaped
escape_quotes_only(c) == IF c = "\"" THEN <<"\\", "\"">> ELSE <<c>>

\* char::escape_default
escape_default(c) ==
    IF c = "\t" THEN <<"\\", "t">>
    ELSE IF c = "\n" THEN <<"\\", "n">>
    ELSE IF c = "'" THEN <<"\\", "'">>
    ELSE IF c = "\"" THEN <<"\\", "\"">>
    ELSE IF c = "\\" THEN <<"\\", "\\">>
    ELSE IF c = Euro THEN EuroEscape
    ELSE <<c>>

\* str::escape_default
RECURSIVE str_escape_default(_)
str_escape_default(text) ==
    IF text = <<>> THEN <<>>
    ELSE escape_default(Head(text)) \o str_escape_default(Tail(text))

\* the line pushed for one Part: one arm of the match
part_line(part) ==
    IF part.kind = "Code" THEN part.content
    ELSE IF part.kind = "EchoCode" THEN EchoHead \o part.content \o EchoTail
    ELSE TextHead \o str_escape_default(part.content) \o TextTail

\* mutant: the loop pushes nothing for a Code Part
RECURSIVE part_lines_skipping_code(_)
part_lines_skipping_code(d) ==
    IF d = <<>> THEN <<>>
    ELSE (IF Head(d).kind = "Code" THEN <<>> ELSE <<part_line(Head(d))>>)
             \o part_lines_skipping_code(Tail(d))

\* for part in data { code_lines.push(..) }
RECURSIVE part_lines(_)
part_lines(d) ==
    IF d = <<>> THEN <<>> ELSE <<part_line(Head(d))>> \o part_lines(Tail(d))

generate_file(name, arguments, d) ==
    <<SigHead \o name \o <<"(">> \o join(arguments, <<",", " ">>) \o SigTail,
      UseLine,
      LetLine>>
        \o part_lines(d)
        \o <<OkLine, CloseLine>>

(***************************************************************************)
(* The inputs generate_file is called with.                                *)
(***************************************************************************)
MaxParts == 3
MaxTextLen == 2

FnNames == {<<"f">>, <<"g", "o">>}

ArgLists ==
    {<<>>,
     <<<<"a", ":", " ", "u", "8">>>>,
     <<<<"a", ":", " ", "u", "8">>, <<"r", ":", " ", "u", "8">>>>}

PlainParts ==
    {Text(<<"n">>), Text(<<"\"">>), Code(<<"a", ";">>), EchoCode(<<"a">>)}

TextChars == {"n", "\"", "\\", "\n", "'", ";", Euro}

Fragments ==
    UNION { [1..n -> PlainParts] : n \in 0..MaxParts }
        \cup { <<Text(t)>> : t \in UNION { [1..n -> TextChars] : n \in 0..MaxTextLen } }

(***************************************************************************)
(* The generated function, run line by line as Rust runs it.  A line that  *)
(* begins with TextHead or EchoHead is a write! into output_buffer: the    *)
(* write may fail, and the ? after it, if the line has one, returns the    *)
(* error from the function.  A Text line appends the value of its string   *)
(* literal; an EchoCode line appends what its expression evaluates to (the *)
(* expressions here are names that stand for their own text).  Any other   *)
(* line of the body is the caller's code, which leaves the buffer alone.   *)
(***************************************************************************)
IsPrefix(s, t) == Len(s) <= Len(t) /\ SubSeq(t, 1, Len(s)) = s

IsSuffix(s, t) == Len(s) <= Len(t) /\ SubSeq(t, Len(t) - Len(s) + 1, Len(t)) = s

\* the value of the body of a string literal, by the escapes of Rust
RECURSIVE Unescape(_, _)
Unescape(body, i) ==
    IF i > Len(body) THEN <<>>
    ELSE IF body[i] # "\\" THEN <<body[i]>> \o Unescape(body, i + 1)
    ELSE IF nth_char(body, i + 1) = "n" THEN <<"\n">> \o Unescape(body, i + 2)
    ELSE IF nth_char(body, i + 1) = "t" THEN <<"\t">> \o Unescape(body, i + 2)
    ELSE IF nth_char(body, i + 1) \in {"\\", "\"", "'"}
        THEN <<body[i + 1]>> \o Unescape(body, i + 2)
    ELSE IF IsPrefix(EuroEscape, SubSeq(body, i, Len(body)))
        THEN <<Euro>> \o Unescape(body, i + Len(EuroEscape))
    ELSE <<"invalid escape">> \o Unescape(body, i + 1)

\* the body of the string literal that opens at the end of TextHead
LiteralBody(line) ==
    LET r == double_quoted_string(line, Len(TextHead) + 1)
    IN  SubSeq(line, Len(TextHead) + 1, r.next - (IF r.terminated THEN 2 ELSE 1))

IsTextAppend(line) == IsPrefix(TextHead, line)

IsEchoAppend(line) == IsPrefix(EchoHead, line)

Propagates(line) == IsSuffix(<<"?", ";">>, line)

AppendedValue(line) ==
    IF IsTextAppend(line) THEN Unescape(LiteralBody(line), 1)
    ELSE SubSeq(line, Len(EchoHead) + 1, Len(line) - Len(EchoTail))

\* the line the generated function is at
CurrentLine == code_lines[exec_line + 1]

\* a caller calls generate_file(fn_name, args, &data)
GenCall ==
    /\ gen_pc = "idle"
    /\ \E name \in FnNames, arguments \in ArgLists, d \in Fragments :
           /\ fn_name' = name
           /\ args' = arguments
           /\ gen_data' = d
           /\ code_lines' = generate_file(name, arguments, d)
    /\ gen_pc' = "generated"
    /\ UNCHANGED <<exec_line, output_buffer, failed>>
    /\ UNCHANGED fsa_vars

\* the generated function is called: lines 0..2, the buffer is empty
ExecProlog ==
    /\ gen_pc = "generated"
    /\ code_lines[2] = UseLine
    /\ code_lines[3] = LetLine
    /\ gen_pc' = "running"
    /\ exec_line' = 3
    /\ output_buffer' = <<>>
    /\ UNCHANGED <<fn_name, args, gen_data, code_lines, failed>>
    /\ UNCHANGED fsa_vars

\* a line of the caller's code
ExecCode ==
    /\ gen_pc = "running"
    /\ exec_line + 1 <= Len(code_lines)
    /\ ~IsTextAppend(CurrentLine)
    /\ ~IsEchoAppend(CurrentLine)
    /\ CurrentLine # OkLine
    /\ exec_line' = exec_line + 1
    /\ UNCHANGED <<gen_pc, fn_name, args, gen_data, code_lines, output_buffer, failed>>
    /\ UNCHANGED fsa_vars

\* write!(output_buffer, ..) returns Ok(())
ExecAppend ==
    /\ gen_pc = "running"
    /\ exec_line + 1 <= Len(code_lines)
    /\ IsTextAppend(CurrentLine) \/ IsEchoAppend(CurrentLine)
    /\ output_buffer' = Append(output_buffer, AppendedValue(CurrentLine))
    /\ exec_line' = exec_line + 1
    /\ UNCHANGED <<gen_pc, fn_name, args, gen_data, code_lines, failed>>
    /\ UNCHANGED fsa_vars

\* write!(output_buffer, ..) returns Err(e): with the ?, the function
\* returns Err(e.into()); without it the Result is dropped
ExecAppendFails ==
    /\ gen_pc = "running"
    /\ exec_line + 1 <= Len(code_lines)
    /\ IsTextAppend(CurrentLine) \/ IsEchoAppend(CurrentLine)
    /\ failed' = failed \cup {exec_line}
    /\ IF Propagates(CurrentLine)
       THEN gen_pc' = "err" /\ UNCHANGED exec_line
       ELSE exec_line' = exec_line + 1 /\ UNCHANGED gen_pc
    /\ UNCHANGED <<fn_name, args, gen_data, code_lines, output_buffer>>
    /\ UNCHANGED fsa_vars

\* Ok(output_buffer), the tail expression of the function
ExecReturnOk ==
    /\ gen_pc = "running"
    /\ exec_line + 1 <= Len(code_lines)
    /\ CurrentLine = OkLine
    /\ gen_pc' = "ok"
    /\ UNCHANGED <<fn_name, args, gen_data, code_lines, exec_line, output_buffer, failed>>
    /\ UNCHANGED fsa_vars

NextGen ==
    \/ GenCall
    \/ ExecProlog
    \/ ExecCode
    \/ ExecAppend
    \/ ExecAppendFails
    \/ ExecReturnOk

SpecGen == Init /\ [][NextGen]_vars

(***************************************************************************)
(* Vocabulary of the properties.                                           *)
(***************************************************************************)
IsAscii(d) == \A k \in 1..Len(d) : d[k] # Euro

\* pat occurs in s at (1-based) position k
OccursAt(s, k, pat) ==
    /\ k >= 1
    /\ k + Len(pat) - 1 <= Len(s)
    /\ \A j \in 1..Len(pat) : s[k + j - 1] = pat[j]

Contains(s, pat) == \E k \in 1..Len(s) : OccursAt(s, k, pat)

NoToken == Token("None", TRUE, 0)

\* the tokenizer's last token for a piece of code, NoToken for no token
LastTokenOf(code) ==
    LET ts == tokenize_code_from_str(code) IN IF ts = <<>> THEN NoToken ELSE Last(ts)

EndsInUnterminatedStr(code) ==
    LastTokenOf(code).kind = "Str" /\ ~LastTokenOf(code).terminated

EndsInLineComment(code) == LastTokenOf(code).kind = "LineComment"

\* run is at a candidate end tag in Code mode
AtEndTagInCode ==
    /\ InLoop
    /\ state = "ParsingCode"
    /\ StartsWithAt(payload, payload_char_index, EndTag)

\* the step appends the current char to the last Part, which is a Code Part
AppendsToCode ==
    /\ data # <<>>
    /\ Last(data).kind = "Code"
    /\ data' = [data EXCEPT ![Len(data)].content =
                    Append(@, payload_chars[payload_char_index + 1])]
    /\ payload_char_index' = payload_char_index + 1
    /\ state' = "ParsingCode"
    /\ pc' = "scanning"

\* the step takes the end tag as live
EndsCodeRegion ==
    /\ payload_char_index' = payload_char_index + 2
    /\ state' = "ParsingText"
    /\ data' = data
    /\ pc' = "scanning"

(***************************************************************************)
(* C1.  run never fails on its own account: whatever the document, the     *)
(* scan never panics (and so reaches end of input and returns).            *)
(***************************************************************************)
C1_RunNeverFails == pc # "panicked"

(***************************************************************************)
(* C2.  Merge invariant: in every state of a run on a fresh instance, no   *)
(* two adjacent Parts of data have the same variant.                       *)
(***************************************************************************)
C2_MergeInvariant ==
    \A i \in 1..(Len(data) - 1) : data[i].kind # data[i + 1].kind

\* a run has returned three Parts or more, the last one grown by merging
C2_Witness ==
    /\ pc = "returned"
    /\ Len(data) >= 3
    /\ Len(Last(data).content) >= 2

(***************************************************************************)
(* C3.  Round trip: for a document with balanced tags and no tag inside a  *)
(* string literal or a line comment, the contents of the returned Parts,   *)
(* with "<?rs" re-inserted at each Text-to-Code transition and "?>" at     *)
(* each Code-to-Text transition, give back the document.                   *)
(***************************************************************************)
\* The tags of d, read from position i on, alternate "<?rs", "?>", ..., "?>";
\* start is 0 in text, else the position of the first char of the open code
\* region, whose code must not leave its closing tag in a string or comment.
RECURSIVE BalancedFrom(_, _, _)
BalancedFrom(d, i, start) ==
    IF i > Len(d) THEN start = 0
    ELSE IF OccursAt(d, i, StartTag)
         THEN start = 0 /\ BalancedFrom(d, i + Len(StartTag), i + Len(StartTag))
    ELSE IF OccursAt(d, i, EndTag)
         THEN /\ start # 0
              /\ ~EndsInUnterminatedStr(SubSeq(d, start, i - 1))
              /\ ~EndsInLineComment(SubSeq(d, start, i - 1))
              /\ BalancedFrom(d, i + Len(EndTag), 0)
    ELSE BalancedFrom(d, i + 1, start)

Balanced(d) == BalancedFrom(d, 1, 0)

\* the contents of the Parts with the tags re-inserted; mode is the variant
\* before the first Part (a document starts as text and, balanced, ends as text)
RECURSIVE Reconstruct(_, _)
Reconstruct(parts, mode) ==
    IF parts = <<>> THEN (IF mode = "Code" THEN EndTag ELSE <<>>)
    ELSE LET p == Head(parts)
             tag == IF p.kind = mode THEN <<>>
                    ELSE IF p.kind = "Code" THEN StartTag ELSE EndTag
         IN  tag \o p.content \o Reconstruct(Tail(parts), p.kind)

C3_RoundTrip ==
    (pc = "returned" /\ Balanced(payload_chars))
        => Reconstruct(data, "Text") = payload_chars

(***************************************************************************)
(* C4.  Single-region split: an ASCII document T1 <?rs C ?> T2 with T1, C, *)
(* T2 non-empty, no "<?rs" in T1 or T2, no "?>" in C, and the last token   *)
(* of C neither an unterminated string literal nor a line comment, is      *)
(* returned as exactly [Text(T1), Code(C), Text(T2)].                      *)
(***************************************************************************)
\* d is T1 <?rs C ?> T2 with "<?rs" at position i and "?>" at position j
SingleRegionAt(d, i, j) ==
    LET T1 == SubSeq(d, 1, i - 1)
        C  == SubSeq(d, i + Len(StartTag), j - 1)
        T2 == SubSeq(d, j + Len(EndTag), Len(d))
    IN  /\ IsAscii(d)
        /\ OccursAt(d, i, StartTag)
        /\ j >= i + Len(StartTag)
        /\ OccursAt(d, j, EndTag)
        /\ T1 # <<>> /\ C # <<>> /\ T2 # <<>>
        /\ ~Contains(T1, StartTag)
        /\ ~Contains(T2, StartTag)
        /\ ~Contains(C, EndTag)
        /\ ~EndsInUnterminatedStr(C)
        /\ ~EndsInLineComment(C)

C4_SingleRegionSplit ==
    pc = "returned" =>
        \A i \in 1..Len(payload_chars) : \A j \in 1..Len(payload_chars) :
            SingleRegionAt(payload_chars, i, j) =>
                data = << Text(SubSeq(payload_chars, 1, i - 1)),
                          Code(SubSeq(payload_chars, i + Len(StartTag), j - 1)),
                          Text(SubSeq(payload_chars, j + Len(EndTag),
                                      Len(payload_chars))) >>

\* a run has returned on a single-region document with two chars of code or more
C4_Witness ==
    /\ pc = "returned"
    /\ \E i \in 1..Len(payload_chars) : \E j \in 1..Len(payload_chars) :
          /\ SingleRegionAt(payload_chars, i, j)
          /\ j - i - Len(StartTag) >= 2
    /\ Len(data) = 3

(***************************************************************************)
(* C5.  Inertness inside string literals: in Code mode, at a "?>" that     *)
(* follows code ending in an unterminated string-literal token, the mode   *)
(* stays Code and "?" is appended to the current Code Part; in the next    *)
(* iteration ">" is appended to it; and the mode leaves Code only at a     *)
(* "?>" whose preceding code of the Part ends neither in an unterminated   *)
(* string literal nor in a line comment.                                   *)
(***************************************************************************)
LastIsCode == data # <<>> /\ Last(data).kind = "Code"

Front(s) == SubSeq(s, 1, Len(s) - 1)

C5_QuestionMarkKept ==
    (AtEndTagInCode /\ LastIsCode /\ EndsInUnterminatedStr(Last(data).content))
        => AppendsToCode

C5_GreaterThanKept ==
    ( /\ InLoop
      /\ state = "ParsingCode"
      /\ payload_char_index >= 1
      /\ StartsWithAt(payload, payload_char_index - 1, EndTag)
      /\ LastIsCode
      /\ EndsInUnterminatedStr(Front(Last(data).content)) )
        => AppendsToCode

C5_EndsOnlyOutside ==
    (state = "ParsingCode" /\ state' = "ParsingText")
        => /\ AtEndTagInCode
           /\ LastIsCode => /\ ~EndsInUnterminatedStr(Last(data).content)
                            /\ ~EndsInLineComment(Last(data).content)

C5_StrLiteralInert ==
    [][C5_QuestionMarkKept /\ C5_GreaterThanKept /\ C5_EndsOnlyOutside]_vars

\* a run has kept a "?>" inside a string literal and ended the code region at
\* the "?>" after the closing quote
C5_Witness ==
    /\ pc = "returned"
    /\ state = "ParsingText"
    /\ data = << Code(<<"\"", "?", ">", "\"">>) >>

(***************************************************************************)
(* C6.  Inertness inside line comments: in Code mode, a "?>" after "//"    *)
(* and before the next newline of the Part is kept as code; a "?>" right   *)
(* after the newline that ends the comment ends the code region; and as    *)
(* long as no newline comes, the scan stays in the comment, in Code mode,  *)
(* appending to the same Code Part.                                        *)
(***************************************************************************)
C6_KeptInComment ==
    (AtEndTagInCode /\ LastIsCode /\ EndsInLineComment(Last(data).content))
        => AppendsToCode

C6_LiveAfterNewline ==
    ( /\ AtEndTagInCode
      /\ LastIsCode
      /\ Last(Last(data).content) = "\n"
      /\ EndsInLineComment(Front(Last(data).content)) )
        => EndsCodeRegion

C6_StaysInComment ==
    ( /\ InLoop
      /\ state = "ParsingCode"
      /\ LastIsCode
      /\ EndsInLineComment(Last(data).content)
      /\ payload_chars[payload_char_index + 1] # "\n" )
        => /\ AppendsToCode
           /\ EndsInLineComment(Last(data').content)

C6_LineCommentInert ==
    [][C6_KeptInComment /\ C6_LiveAfterNewline /\ C6_StaysInComment]_vars

\* a run has kept a "?>" inside a line comment and ended the code region at the
\* "?>" after the comment's newline
C6_Witness ==
    /\ pc = "returned"
    /\ state = "ParsingText"
    /\ data = << Code(<<"/", "/", "?", ">", "\n">>) >>

(***************************************************************************)
(* C7.  Live by default: at a candidate "?>" in Code mode the tag is inert *)
(* (one char appended, mode kept) exactly when the last token of the text  *)
(* given to the tokenizer is an unterminated string literal or a line      *)
(* comment; for every other last token, and for no token at all, the       *)
(* cursor moves by 2 and the mode becomes Text.                            *)
(***************************************************************************)
RECURSIVE ContentOf(_)
ContentOf(parts) ==
    IF parts = <<>> THEN <<>> ELSE Head(parts).content \o ContentOf(Tail(parts))

\* the step keeps the mode and adds the current char to the contents
KeepsChar ==
    /\ payload_char_index' = payload_char_index + 1
    /\ state' = state
    /\ ContentOf(data') =
          Append(ContentOf(data), payload_chars[payload_char_index + 1])
    /\ pc' = "scanning"

TokenizerInput == unwrap_or(get_last_part_content(data), <<>>)

C7_LiveByDefault ==
    [][ AtEndTagInCode =>
            IF \/ EndsInUnterminatedStr(TokenizerInput)
               \/ EndsInLineComment(TokenizerInput)
            THEN KeepsChar
            ELSE EndsCodeRegion ]_vars

\* a run has ended a code region at a "?>" inside an unterminated block comment
C7_Witness ==
    /\ pc = "returned"
    /\ state = "ParsingText"
    /\ data = << Code(<<"/", "*">>) >>

(***************************************************************************)
(* C8.  Locality of the live/inert decision: the text the tokenizer is     *)
(* given at a candidate "?>" is the code of the current code region only.  *)
(* When nothing was appended since "<?rs" (data is empty, or its last Part *)
(* is still the Text Part before the tag) that code is empty, so the tag   *)
(* is live whatever text precedes "<?rs".                                  *)
(***************************************************************************)
C8_DecisionIsLocal ==
    (AtEndTagInCode /\ ~LastIsCode)
        => /\ ~is_inside_str_literal(tokens)
           /\ ~is_inside_line_comment(tokens)

(***************************************************************************)
(* C9.  Marker recurrence: in Code mode each of the four chars of a        *)
(* "<?rs" is appended to the current Code Part (opening it when the region *)
(* had no char yet), the mode stays Code and nothing is skipped; the       *)
(* document "<?rs<?rs" is returned as exactly [Code("<?rs")].              *)
(***************************************************************************)
\* the step adds the current char as code and moves on by one char
GrowsCode ==
    LET c == payload_chars[payload_char_index + 1]
    IN  /\ data' = IF LastIsCode
                   THEN [data EXCEPT ![Len(data)].content = Append(@, c)]
                   ELSE Append(data, Code(<<c>>))
        /\ payload_char_index' = payload_char_index + 1
        /\ state' = "ParsingCode"
        /\ pc' = "scanning"

C9_EachCharKept ==
    \A k \in 0..(Len(StartTag) - 1) :
        ( /\ InLoop
          /\ state = "ParsingCode"
          /\ payload_char_index >= k
          /\ StartsWithAt(payload, payload_char_index - k, StartTag) )
            => GrowsCode

C9_Example ==
    (pc = "returned" /\ payload_chars = StartTag \o StartTag)
        => data = << Code(StartTag) >>

C9_StartTagInCodeIsContent == [][C9_EachCharKept]_vars /\ []C9_Example

\* a run has returned a Code Part that ends with a "<?rs" met in Code mode
C9_Witness ==
    /\ pc = "returned"
    /\ state = "ParsingCode"
    /\ LastIsCode
    /\ Len(Last(data).content) > Len(StartTag)
    /\ OccursAt(Last(data).content,
                Len(Last(data).content) - Len(StartTag) + 1, StartTag)

(***************************************************************************)
(* C10.  Cursor alignment: at every iteration the cursor, used as a byte   *)
(* offset into the document, is at a character boundary and is the offset  *)
(* of the char the iteration reads from payload_chars.                     *)
(***************************************************************************)
\* the byte offset in the document of its char number n (0-based)
ByteOffsetOfChar(chars, n) == Len(Bytes(SubSeq(chars, 1, n)))

C10_CursorAligned ==
    (pc = "scanning" /\ payload_char_index < Len(payload_chars))
        => /\ IsCharBoundary(payload, payload_char_index)
           /\ ByteOffsetOfChar(payload_chars, payload_char_index)
                  = payload_char_index

(***************************************************************************)
(* C15.  Fresh Text fragment after a live end tag: when a "?>" is taken as *)
(* live, data does not end in a Text Part, so that the next char appended  *)
(* (by push_char_to_latest_entry, in Text mode) opens a new Text Part; also*)
(* when the code region just closed was empty.                             *)
(***************************************************************************)
C15_FreshTextAfterEndTag ==
    [][ (state = "ParsingCode" /\ state' = "ParsingText")
            => (data' = <<>> \/ Last(data').kind # "Text") ]_vars

(***************************************************************************)
(* C16.  Content conservation: each step of the scan either appends        *)
(* exactly the char under the cursor to the contents and moves the cursor  *)
(* by one, or leaves the contents as they are and moves the cursor over a  *)
(* tag that is there ("<?rs" in Text mode, "?>" in Code mode).  So the     *)
(* contents returned are the document with the consumed tags deleted, in   *)
(* the document's order and with nothing added.                            *)
(***************************************************************************)
C16_StepConserves ==
    (pc = "scanning" /\ pc' = "scanning") =>
        \/ KeepsChar
        \/ /\ state = "ParsingText"
           /\ StartsWithAt(payload, payload_char_index, StartTag)
           /\ payload_char_index' = payload_char_index + Len(StartTag)
           /\ ContentOf(data') = ContentOf(data)
        \/ /\ state = "ParsingCode"
           /\ StartsWithAt(payload, payload_char_index, EndTag)
           /\ payload_char_index' = payload_char_index + Len(EndTag)
           /\ ContentOf(data') = ContentOf(data)

\* s is t with some chars deleted, the others kept in their order
RECURSIVE IsSubsequence(_, _)
IsSubsequence(s, t) ==
    IF s = <<>> THEN TRUE
    ELSE IF t = <<>> THEN FALSE
    ELSE IF Head(s) = Head(t) THEN IsSubsequence(Tail(s), Tail(t))
    ELSE IsSubsequence(s, Tail(t))

\* the contents are what is left of the part of the document read so far
C16_NothingAdded ==
    (pc \in {"scanning", "returned"} /\ IsAscii(payload_chars)) =>
        /\ Len(ContentOf(data)) <= payload_char_index
        /\ IsSubsequence(ContentOf(data),
                         SubSeq(payload_chars, 1, payload_char_index))

C16_ContentConservation == [][C16_StepConserves]_vars /\ []C16_NothingAdded

\* a run has returned the contents of a document with both tags consumed
C16_Witness ==
    /\ pc = "returned"
    /\ Balanced(payload_chars)
    /\ Len(data) = 3
    /\ Len(ContentOf(data)) + Len(StartTag) + Len(EndTag) = Len(payload_chars)

(***************************************************************************)
(* C17.  No empty fragments: every Part of data has non-empty content in   *)
(* every state of a run; a step that changes the mode (a tag consumed)     *)
(* leaves data as it is, so a code region opened and closed with no char   *)
(* appended in between adds no Code Part; and run on "", "<?rs" and        *)
(* "<?rs?>" returns the empty sequence.                                    *)
(***************************************************************************)
C17_ContentsNonEmpty == \A i \in 1..Len(data) : data[i].content # <<>>

C17_EmptyResults ==
    (pc = "returned" /\ payload_chars \in {<<>>, StartTag, StartTag \o EndTag})
        => data = <<>>

C18_NoStartTagInText ==
    \A i \in 1..Len(data) :
        data[i].kind = "Text" => ~Contains(data[i].content, StartTag)

(***************************************************************************)
(* C19.  The end tag is literal in Text mode: a step taken in Text mode    *)
(* with the cursor on either char of a "?>" keeps the mode, moves one char *)
(* on and appends that char to a Text Part (the last Part if it is a Text  *)
(* Part, a new one otherwise); what the tokenizer would say of the last    *)
(* Part has no part in it.                                                 *)
(***************************************************************************)
OnEndTagInText ==
    /\ pc = "scanning"
    /\ state = "ParsingText"
    /\ payload_char_index < Len(payload_chars)
    /\ \E k \in {0, 1} :
          /\ payload_char_index >= k
          /\ StartsWithAt(payload, payload_char_index - k, EndTag)

AppendsToText ==
    /\ state' = "ParsingText"
    /\ payload_char_index' = payload_char_index + 1
    /\ data' = IF data # <<>> /\ Last(data).kind = "Text"
               THEN Front(data) \o
                    <<Text(Append(Last(data).content,
                                  payload_chars[payload_char_index + 1]))>>
               ELSE Append(data, Text(<<payload_chars[payload_char_index + 1]>>))

C19_EndTagLiteralInText ==
    [][ (OnEndTagInText /\ pc' = "scanning") => AppendsToText ]_vars

\* a run has returned a Text Part that holds a "?>" met after a code region
C19_Witness ==
    /\ pc = "returned"
    /\ Len(data) >= 2
    /\ data[Len(data) - 1].kind = "Code"
    /\ Last(data).kind = "Text"
    /\ Contains(Last(data).content, EndTag)

(***************************************************************************)
(* C20.  State carry-over between runs: a run on an instance that has      *)
(* already run starts with the mode and the Parts the earlier run left     *)
(* (only the run after new() starts in Text mode with no Part because of   *)
(* new()); all through the second run the Parts of the first run are the   *)
(* beginning of data, up to the content of the last of them, which may     *)
(* have grown; and for ASCII d1, d2 with no tag of d1 ++ d2 lying across   *)
(* the boundary, run(d1) then run(d2) returns what run(d1 ++ d2) returns   *)
(* on an instance of its own.                                              *)
(***************************************************************************)
\* r1 is the beginning of r2 up to the content of r1's last Part
BeginsUpToLast(r1, r2) ==
    \/ r1 = <<>>
    \/ /\ Len(r1) <= Len(r2)
       /\ \A i \in 1..(Len(r1) - 1) : r2[i] = r1[i]
       /\ r2[Len(r1)].kind = Last(r1).kind
       /\ IsPrefix(Last(r1).content, r2[Len(r1)].content)

\* a "<?rs" or "?>" of d1 ++ d2 begins in d1 and ends in d2
Straddles(d1, d2) ==
    \E k \in 1..Len(d1) : \E tag \in {StartTag, EndTag} :
        /\ OccursAt(d1 \o d2, k, tag)
        /\ k + Len(tag) - 1 > Len(d1)

C20_StartsWhereLeft ==
    (pc = "returned" /\ pc' = "scanning" /\ Len(calls) = 1) =>
        /\ state' = calls[1].state
        /\ data' = calls[1].data

C20_FirstResultKept ==
    /\ (Len(calls) = 1 /\ pc \in {"scanning", "returned"})
           => BeginsUpToLast(calls[1].data, data)
    /\ Len(calls) >= 2 => BeginsUpToLast(calls[1].data, calls[2].data)

C20_SameAsJoined ==
    (/\ Len(calls) = 3
     /\ IsAscii(calls[3].payload_chars)
     /\ ~Straddles(calls[1].payload_chars, calls[2].payload_chars))
        => /\ calls[3].data = calls[2].data
           /\ calls[3].state = calls[2].state

C20_CarryOver ==
    /\ [][C20_StartsWhereLeft]_vars
    /\ []C20_FirstResultKept
    /\ []C20_SameAsJoined

\* run("<?rsa") then run("a") have returned Code("aa"), the Part of the
\* first run grown, and so has run("<?rsaa") on an instance of its own
C20_Witness ==
    /\ Len(calls) = 3
    /\ calls[1].payload_chars = StartTag \o <<"a">>
    /\ calls[1].state = "ParsingCode"
    /\ calls[2].payload_chars = <<"a">>
    /\ calls[2].data = <<Code(<<"a", "a">>)>>
    /\ calls[3].data = calls[2].data

(***************************************************************************)
(* C11.  Shape and order of the generated lines: for a fragment sequence   *)
(* of length n, generate_file returns n + 5 lines: the signature, the      *)
(* import of fmt::Write, the declaration of the empty buffer, one line per *)
(* fragment in the order of the sequence (the line of fragment i is made   *)
(* from fragment i alone: its content for Code, a write! into the buffer   *)
(* for Text and EchoCode), Ok(output_buffer) and the closing brace.  So    *)
(* the generated function, when no write fails, appends once per Text and  *)
(* EchoCode fragment, in the order of the sequence.                        *)
(***************************************************************************)
LineOfFragment(line, part) ==
    /\ line = part_line(part)
    /\ part.kind = "Code" => line = part.content
    /\ part.kind = "Text" => IsTextAppend(line)
    /\ part.kind = "EchoCode" =>
           /\ IsEchoAppend(line)
           /\ AppendedValue(line) = part.content

\* what the fragments append, in their order
RECURSIVE AppendValues(_)
AppendValues(d) ==
    IF d = <<>> THEN <<>>
    ELSE (IF Head(d).kind = "Code" THEN <<>> ELSE <<Head(d).content>>)
             \o AppendValues(Tail(d))

C11_Shape ==
    gen_pc # "idle" =>
        LET n == Len(gen_data)
        IN  /\ Len(code_lines) = n + 5
            /\ IsPrefix(SigHead \o fn_name \o <<"(">>, code_lines[1])
            /\ IsSuffix(SigTail, code_lines[1])
            /\ code_lines[2] = UseLine
            /\ code_lines[3] = LetLine
            /\ \A i \in 1..n : LineOfFragment(code_lines[3 + i], gen_data[i])
            /\ code_lines[n + 4] = OkLine
            /\ code_lines[n + 5] = CloseLine

C11_AppendsInOrder ==
    gen_pc = "ok" => output_buffer = AppendValues(gen_data)

C11_GeneratorShape == C11_Shape /\ C11_AppendsInOrder

\* the function generated for a Code, a Text and an EchoCode fragment has
\* run to its Ok
C11_Witness ==
    /\ gen_pc = "ok"
    /\ Len(gen_data) = 3
    /\ {gen_data[i].kind : i \in 1..3} = {"Code", "Text", "EchoCode"}
    /\ Len(code_lines) = 8
    /\ Len(output_buffer) = 2

(***************************************************************************)
(* C12.  Text escaping: the line of a Text(t) fragment is a write! of a    *)
(* string literal that closes at the quote the generator wrote, with only  *)
(* ")?;" after it (one statement); the body of the literal has no raw      *)
(* control or non-ASCII char and no escape Rust does not know; and the     *)
(* value of the literal is t.                                              *)
(***************************************************************************)
C12_TextEscaping ==
    gen_pc # "idle" =>
        \A i \in 1..Len(gen_data) :
            gen_data[i].kind = "Text" =>
                LET line == code_lines[3 + i]
                    r == double_quoted_string(line, Len(TextHead) + 1)
                    body == LiteralBody(line)
                IN  /\ IsTextAppend(line)
                    /\ r.terminated
                    /\ SubSeq(line, r.next, Len(line)) = <<")", "?", ";">>
                    /\ \A k \in 1..Len(body) : body[k] \notin {"\n", "\t", Euro}
                    /\ \A k \in 1..Len(Unescape(body, 1)) :
                           Unescape(body, 1)[k] # "invalid escape"
                    /\ Unescape(body, 1) = gen_data[i].content

\* a Text fragment with a double quote and a backslash has its line
C12_Witness ==
    /\ gen_pc = "generated"
    /\ Len(gen_data) = 1
    /\ gen_data[1] = Text(<<"\"", "\\">>)
    /\ LiteralBody(code_lines[4]) = <<"\\", "\"", "\\", "\\">>

(***************************************************************************)
(* C13.  Error short-circuit: the line of every Text and EchoCode fragment *)
(* ends in "?;", so when a write of the generated function fails, the      *)
(* function returns the error there: the buffer holds only what the        *)
(* fragments before that line appended, nothing moves afterwards, and the  *)
(* function does not return Ok.                                            *)
(***************************************************************************)
\* the write! lines before line n (lines count from 0, the body starts at 3)
AppendLinesBefore(n) ==
    { l \in 3..(n - 1) :
          IsTextAppend(code_lines[l + 1]) \/ IsEchoAppend(code_lines[l + 1]) }

C13_EveryAppendPropagates ==
    gen_pc # "idle" =>
        \A i \in 1..Len(gen_data) :
            gen_data[i].kind # "Code" => Propagates(code_lines[3 + i])

C13_StopsAtFailure ==
    \A l \in failed :
        /\ gen_pc = "err"
        /\ exec_line = l
        /\ Len(output_buffer) = Cardinality(AppendLinesBefore(l))

C13_ErrorShortCircuit ==
    /\ []C13_EveryAppendPropagates
    /\ []C13_StopsAtFailure
    /\ [](gen_pc = "ok" => failed = {})
    /\ [][failed # {} => UNCHANGED gen_vars]_vars

\* the write of the second of three appending fragments has failed
C13_Witness ==
    /\ gen_pc = "err"
    /\ failed = {4}
    /\ Len(gen_data) = 3
    /\ \A i \in 1..3 : gen_data[i].kind # "Code"
    /\ Len(output_buffer) = 1

====
